---- MODULE Spec2Model ----
(***************************************************************************)
(* Model of the outline-to-deck pipeline of PPT_Generator:                 *)
(*   src/ppt_generator.py  safe_json_parse, generate_outline,              *)
(*                         fetch_image_bytes, save_image_tmp, the two      *)
(*                         image renderers, PPTGenerator                   *)
(*   src/beauty_ppt.py     the themed slide renderers                      *)
(*                                                                         *)
(* Python values are tagged pairs <<tag, payload>>:                        *)
(*   <<"null", 0>>  <<"bool", b>>  <<"num", n>>  <<"str", chars>>          *)
(*   <<"arr", sequence of values>>                                         *)
(*   <<"obj", sequence of <<key, value>> pairs in insertion order>>        *)
(*   <<"bytes", "empty" | "undecodable" | "image">>                        *)
(* A Python str is a sequence of one-character strings; the backtick,      *)
(* which a TLA+ string cannot hold, is the character named BACKTICK.       *)
(***************************************************************************)
EXTENDS Integers, Sequences, FiniteSets, TLC

\* ------------------------------------------------------------------------
\* Python values
\* ------------------------------------------------------------------------
None == <<"null", 0>>
PyStr(cs) == <<"str", cs>>
PyList(xs) == <<"arr", xs>>
PyDict(f) == <<"obj", f>>
EmptyStr == PyStr(<<>>)
EmptyList == PyList(<<>>)
EmptyDict == PyDict(<<>>)

IsStr(v) == v[1] = "str"
IsList(v) == v[1] = "arr"
IsDict(v) == v[1] = "obj"

\* bool(v): None, False, 0, "", [] and {} are falsy
Truthy(v) ==
    CASE v[1] = "null" -> FALSE
      [] v[1] = "bool" -> v[2]
      [] v[1] = "num" -> v[2] # 0
      [] v[1] = "str" -> v[2] # <<>>
      [] v[1] = "arr" -> v[2] # <<>>
      [] v[1] = "obj" -> v[2] # <<>>
      [] v[1] = "bytes" -> v[2] # "empty"

\* a or b
Or(a, b) == IF Truthy(a) THEN a ELSE b

\* position of key k among the pairs ps, or 0
RECURSIVE KeyIndex(_, _, _)
KeyIndex(ps, k, i) ==
    IF i > Len(ps) THEN 0 ELSE IF ps[i][1] = k THEN i ELSE KeyIndex(ps, k, i + 1)

\* d.get(k, default) on a dict d
Get(d, k, default) ==
    LET i == KeyIndex(d[2], k, 1) IN IF i = 0 THEN default ELSE d[2][i][2]

\* d[k] = v on the pairs of a dict: a key already present keeps its place
Put(ps, k, v) ==
    LET i == KeyIndex(ps, k, 1) IN
    IF i = 0 THEN Append(ps, <<k, v>>) ELSE [ps EXCEPT ![i] = <<k, v>>]

\* ------------------------------------------------------------------------
\* Characters
\* ------------------------------------------------------------------------
QUOTE == "\""
BACKTICK == "<backtick>"
Whitespace == {" ", "\n"}
Digits == {"0", "1", "2", "3", "4", "5", "6", "7", "8", "9"}

DigitVal(c) ==
    CASE c = "0" -> 0 [] c = "1" -> 1 [] c = "2" -> 2 [] c = "3" -> 3
      [] c = "4" -> 4 [] c = "5" -> 5 [] c = "6" -> 6 [] c = "7" -> 7
      [] c = "8" -> 8 [] c = "9" -> 9

\* re.IGNORECASE on the letters of the tag "json"
Lower(c) ==
    CASE c = "J" -> "j" [] c = "S" -> "s" [] c = "O" -> "o" [] c = "N" -> "n"
      [] OTHER -> c

StartsWith(s, p) == Len(s) >= Len(p) /\ SubSeq(s, 1, Len(p)) = p
EndsWith(s, p) == Len(s) >= Len(p) /\ SubSeq(s, Len(s) - Len(p) + 1, Len(s)) = p
Drop(s, n) == SubSeq(s, n + 1, Len(s))

RECURSIVE LStrip(_)
LStrip(s) == IF s # <<>> /\ Head(s) \in Whitespace THEN LStrip(Tail(s)) ELSE s

RECURSIVE RStrip(_)
RStrip(s) ==
    IF s # <<>> /\ s[Len(s)] \in Whitespace THEN RStrip(SubSeq(s, 1, Len(s) - 1)) ELSE s

\* str.strip()
Strip(s) == RStrip(LStrip(s))

\* ------------------------------------------------------------------------
\* json.loads on the JSON subset: objects, arrays, strings without escapes,
\* non-negative integers, null, true, false
\* ------------------------------------------------------------------------
Fail == [ok |-> FALSE, v |-> None, i |-> 0]
Got(v, i) == [ok |-> TRUE, v |-> v, i |-> i]

RECURSIVE SkipWs(_, _)
SkipWs(s, i) == IF i <= Len(s) /\ s[i] \in Whitespace THEN SkipWs(s, i + 1) ELSE i

At(s, i, c) == i <= Len(s) /\ s[i] = c

\* first index >= i holding a quote, or 0
RECURSIVE FindQuote(_, _)
FindQuote(s, i) ==
    IF i > Len(s) THEN 0 ELSE IF s[i] = QUOTE THEN i ELSE FindQuote(s, i + 1)

\* s[i] is the opening quote; a raw newline inside a string is rejected
ParseString(s, i) ==
    LET j == FindQuote(s, i + 1) IN
    IF j = 0 THEN Fail
    ELSE LET body == SubSeq(s, i + 1, j - 1) IN
         IF \E k \in 1..Len(body) : body[k] = "\n" THEN Fail
         ELSE Got(PyStr(body), j + 1)

RECURSIVE DigitsEnd(_, _)
DigitsEnd(s, i) == IF i <= Len(s) /\ s[i] \in Digits THEN DigitsEnd(s, i + 1) ELSE i

RECURSIVE NumVal(_, _, _)
NumVal(s, i, j) == IF j < i THEN 0 ELSE 10 * NumVal(s, i, j - 1) + DigitVal(s[j])

\* s[i] is a digit; a leading 0 ends the number
ParseNumber(s, i) ==
    LET j == IF s[i] = "0" THEN i + 1 ELSE DigitsEnd(s, i) IN
    Got(<<"num", NumVal(s, i, j - 1)>>, j)

WordAt(s, i, w) == i + Len(w) - 1 <= Len(s) /\ SubSeq(s, i, i + Len(w) - 1) = w

RECURSIVE ParseValue(_, _)
RECURSIVE ParseMembers(_, _, _)
RECURSIVE ParseElements(_, _, _)

\* i is at the opening quote of a key; acc holds the pairs read so far
ParseMembers(s, i, acc) ==
    IF ~At(s, i, QUOTE) THEN Fail
    ELSE LET k == ParseString(s, i) IN
         IF ~k.ok THEN Fail
         ELSE LET c == SkipWs(s, k.i) IN
              IF ~At(s, c, ":") THEN Fail
              ELSE LET v == ParseValue(s, SkipWs(s, c + 1)) IN
                   IF ~v.ok THEN Fail
                   ELSE LET e == SkipWs(s, v.i)
                            \* a repeated key keeps the last value
                            acc2 == Put(acc, k.v[2], v.v)
                        IN  IF At(s, e, "}") THEN Got(PyDict(acc2), e + 1)
                            ELSE IF At(s, e, ",")
                                 THEN ParseMembers(s, SkipWs(s, e + 1), acc2)
                                 ELSE Fail

\* i is at the first character of an element
ParseElements(s, i, acc) ==
    LET v == ParseValue(s, i) IN
    IF ~v.ok THEN Fail
    ELSE LET e == SkipWs(s, v.i)
             acc2 == Append(acc, v.v)
         IN  IF At(s, e, "]") THEN Got(PyList(acc2), e + 1)
             ELSE IF At(s, e, ",") THEN ParseElements(s, SkipWs(s, e + 1), acc2)
                  ELSE Fail

ParseValue(s, i) ==
    IF i > Len(s) THEN Fail
    ELSE IF s[i] = QUOTE THEN ParseString(s, i)
    ELSE IF s[i] = "{" THEN
        LET j == SkipWs(s, i + 1) IN
        IF At(s, j, "}") THEN Got(EmptyDict, j + 1) ELSE ParseMembers(s, j, <<>>)
    ELSE IF s[i] = "[" THEN
        LET j == SkipWs(s, i + 1) IN
        IF At(s, j, "]") THEN Got(EmptyList, j + 1) ELSE ParseElements(s, j, <<>>)
    ELSE IF s[i] \in Digits THEN ParseNumber(s, i)
    ELSE IF WordAt(s, i, <<"n", "u", "l", "l">>) THEN Got(None, i + 4)
    ELSE IF WordAt(s, i, <<"t", "r", "u", "e">>) THEN Got(<<"bool", TRUE>>, i + 4)
    ELSE IF WordAt(s, i, <<"f", "a", "l", "s", "e">>) THEN Got(<<"bool", FALSE>>, i + 5)
    ELSE Fail

\* json.loads(text): [ok |-> FALSE] stands for JSONDecodeError
JsonLoads(text) ==
    LET r == ParseValue(text, SkipWs(text, 1)) IN
    IF r.ok /\ SkipWs(text, r.i) = Len(text) + 1 THEN [ok |-> TRUE, v |-> r.v]
    ELSE [ok |-> FALSE, v |-> None]

\* ------------------------------------------------------------------------
\* safe_json_parse
\* ------------------------------------------------------------------------
FENCE == <<BACKTICK, BACKTICK, BACKTICK>>
JSONTAG == <<"j", "s", "o", "n">>

LowerSeq(s) == [k \in 1..Len(s) |-> Lower(s[k])]

SetMin(I) == CHOOSE i \in I : \A j \in I : i <= j
SetMax(I) == CHOOSE i \in I : \A j \in I : i >= j

\* index of the first FENCE in s, or 0
FirstFence(s) ==
    LET I == {i \in 1..(Len(s) - 2) : SubSeq(s, i, i + 2) = FENCE} IN
    IF I = {} THEN 0 ELSE SetMin(I)

\* re.sub(r"```(json)?", "", text, flags=re.IGNORECASE): matches are found left
\* to right and do not overlap
RECURSIVE SubFences(_)
SubFences(s) ==
    LET i == FirstFence(s) IN
    IF i = 0 THEN s
    ELSE LET rest == Drop(s, i + 2) IN
         SubSeq(s, 1, i - 1)
         \o (IF Len(rest) >= 4 /\ LowerSeq(SubSeq(rest, 1, 4)) = JSONTAG
             THEN SubFences(Drop(rest, 4))
             ELSE SubFences(rest))

\* re.sub(r"```$", "", text): $ matches at the end and before a final newline
SubTrailingFence(s) ==
    IF EndsWith(s, FENCE) THEN SubSeq(s, 1, Len(s) - 3)
    ELSE IF EndsWith(s, FENCE \o <<"\n">>) THEN SubSeq(s, 1, Len(s) - 4) \o <<"\n">>
    ELSE s

StripFences(text) ==
    IF StartsWith(text, FENCE)
    THEN Strip(SubTrailingFence(Strip(SubFences(text))))
    ELSE text

\* index of the first / last c in s, or 0
FirstIndex(s, c) ==
    LET I == {i \in 1..Len(s) : s[i] = c} IN IF I = {} THEN 0 ELSE SetMin(I)

LastIndex(s, c) ==
    LET I == {i \in 1..Len(s) : s[i] = c} IN IF I = {} THEN 0 ELSE SetMax(I)

\* mutant: re.match in place of re.search, the span has to start the text
SearchSpan_Anchored(text) ==
    LET b == LastIndex(text, "}") IN
    IF text # <<>> /\ text[1] = "{" /\ b > 1 THEN [found |-> TRUE, span |-> SubSeq(text, 1, b)]
    ELSE [found |-> FALSE, span |-> <<>>]

\* re.search(r"\{.*\}", text, flags=re.DOTALL): the first "{" to the last "}"
SearchSpan(text) ==
    LET a == FirstIndex(text, "{")
        b == LastIndex(text, "}")
    IN  IF a # 0 /\ b > a THEN [found |-> TRUE, span |-> SubSeq(text, a, b)]
        ELSE [found |-> FALSE, span |-> <<>>]

safe_json_parse(text) ==
    LET t1 == Strip(text)
        t2 == StripFences(t1)
        m == SearchSpan(t2)
        t3 == IF m.found THEN m.span ELSE t2
    IN  JsonLoads(t3)

\* ------------------------------------------------------------------------
\* String literals of the source
\* ------------------------------------------------------------------------
K_meta == <<"m", "e", "t", "a">>
K_title == <<"t", "i", "t", "l", "e">>
K_subtitle == <<"s", "u", "b", "t", "i", "t", "l", "e">>
K_slides == <<"s", "l", "i", "d", "e", "s">>
K_type == <<"t", "y", "p", "e">>
K_image_query == <<"i", "m", "a", "g", "e", "_", "q", "u", "e", "r", "y">>
K_heading == <<"h", "e", "a", "d", "i", "n", "g">>
K_blurb == <<"b", "l", "u", "r", "b">>
K_bullets == <<"b", "u", "l", "l", "e", "t", "s">>
K_left == <<"l", "e", "f", "t">>
K_right == <<"r", "i", "g", "h", "t">>
K_caption == <<"c", "a", "p", "t", "i", "o", "n">>
T_section == <<"s", "e", "c", "t", "i", "o", "n">>
T_bullets == <<"b", "u", "l", "l", "e", "t", "s">>
T_two_column == <<"t", "w", "o", "-", "c", "o", "l", "u", "m", "n">>
T_image_hero == <<"i", "m", "a", "g", "e", "-", "h", "e", "r", "o">>
T_chart == <<"c", "h", "a", "r", "t">>
D_Section == <<"S", "e", "c", "t", "i", "o", "n">>
D_Slide == <<"S", "l", "i", "d", "e">>
D_Two_column == <<"T", "w", "o", " ", "c", "o", "l", "u", "m", "n">>
D_Visual == <<"V", "i", "s", "u", "a", "l">>
D_Chart == <<"C", "h", "a", "r", "t">>
F_Overview == <<"O", "v", "e", "r", "v", "i", "e", "w">>
F_What_it_is == <<"W", "h", "a", "t", " ", "i", "t", " ", "i", "s">>
F_Why_it_matters == <<"W", "h", "y", " ", "i", "t", " ", "m", "a", "t", "t", "e", "r", "s">>
F_Key_points == <<"K", "e", "y", " ", "p", "o", "i", "n", "t", "s">>
F_Pros_Cons == <<"P", "r", "o", "s", " ", "&", " ", "C", "o", "n", "s">>
F_Pro_1 == <<"P", "r", "o", " ", "1">>
F_Pro_2 == <<"P", "r", "o", " ", "2">>
F_Con_1 == <<"C", "o", "n", " ", "1">>
F_Con_2 == <<"C", "o", "n", " ", "2">>
F_Next_Steps == <<"N", "e", "x", "t", " ", "S", "t", "e", "p", "s">>
F_Do_X == <<"D", "o", " ", "X">>
F_Measure_Y == <<"M", "e", "a", "s", "u", "r", "e", " ", "Y">>
F_Review_Z == <<"R", "e", "v", "i", "e", "w", " ", "Z">>

\* str(n) for n >= 0
DigitChar(d) ==
    CASE d = 0 -> "0" [] d = 1 -> "1" [] d = 2 -> "2" [] d = 3 -> "3" [] d = 4 -> "4"
      [] d = 5 -> "5" [] d = 6 -> "6" [] d = 7 -> "7" [] d = 8 -> "8" [] d = 9 -> "9"

RECURSIVE Str(_)
Str(n) == IF n < 10 THEN <<DigitChar(n)>> ELSE Str(n \div 10) \o <<DigitChar(n % 10)>>

\* ------------------------------------------------------------------------
\* Slides and the renderers of beauty_ppt.py
\* A slide records what its shapes show; page and image are empty when the
\* slide has no page-number box / no picture.
\* ------------------------------------------------------------------------
BlankSlide(variant) ==
    [variant |-> variant, complete |-> TRUE,
     header |-> <<>>, page |-> <<>>, logo |-> FALSE,
     title |-> <<>>, sub |-> <<>>, author |-> <<>>,
     body |-> <<>>, right |-> <<>>,
     image |-> <<>>, placeholder |-> FALSE, caption |-> <<>>, chart |-> FALSE]

\* the renderer returned: its slide is the last of prs
Added(prs, slide) == [ok |-> TRUE, prs |-> Append(prs, slide)]
\* the renderer raised after prs.slides.add_slide: a half-built slide stays in prs
Raised(prs, slide) == [ok |-> FALSE, prs |-> Append(prs, [slide EXCEPT !.complete = FALSE])]

\* iter(v): the items a for loop or enumerate() draws from v; ok is FALSE for
\* TypeError (v is not iterable)
Iter(v) ==
    CASE v[1] = "arr" -> [ok |-> TRUE, items |-> v[2]]
      [] v[1] = "str" -> [ok |-> TRUE, items |-> [i \in 1..Len(v[2]) |-> PyStr(<<v[2][i]>>)]]
      [] v[1] = "obj" -> [ok |-> TRUE, items |-> [i \in 1..Len(v[2]) |-> PyStr(v[2][i][1])]]
      [] OTHER -> [ok |-> FALSE, items |-> <<>>]

\* for i, b in enumerate(bullets): para.text = b
\* python-pptx accepts only a str as a paragraph's text
Paragraphs(bullets) ==
    LET it == Iter(bullets) IN
    IF it.ok /\ \A i \in 1..Len(it.items) : IsStr(it.items[i])
    THEN [ok |-> TRUE, paras |-> [i \in 1..Len(it.items) |-> it.items[i][2]]]
    ELSE [ok |-> FALSE, paras |-> <<>>]

\* the files Path(...).exists() finds outside tmpdir
Disk == {<<"l", "o", "g", "o">>}

add_header_footer(slide, title_text, page_number, logo_path) ==
    IF Truthy(title_text) /\ ~IsStr(title_text) THEN [ok |-> FALSE, slide |-> slide]
    ELSE LET s1 == IF Truthy(title_text) THEN [slide EXCEPT !.header = title_text[2]] ELSE slide
             s2 == IF page_number # None THEN [s1 EXCEPT !.page = Str(page_number[2])] ELSE s1
             s3 == IF Truthy(logo_path) /\ logo_path[2] \in Disk
                   THEN [s2 EXCEPT !.logo = TRUE] ELSE s2
         IN  [ok |-> TRUE, slide |-> s3]

add_title_slide(prs, title, subtitle, author, logo_path) ==
    LET s0 == BlankSlide("title") IN
    IF ~IsStr(title) THEN Raised(prs, s0)
    ELSE IF Truthy(subtitle) /\ ~IsStr(subtitle) THEN Raised(prs, s0)
    ELSE IF Truthy(author) /\ ~IsStr(author) THEN Raised(prs, s0)
    ELSE LET s1 == [s0 EXCEPT !.title = title[2],
                              !.sub = IF Truthy(subtitle) THEN subtitle[2] ELSE <<>>,
                              !.author = IF Truthy(author) THEN author[2] ELSE <<>>]
             \* add_header_footer(slide, title_text=""): logo_path is not handed on
             hf == add_header_footer(s1, EmptyStr, None, None)
         IN  Added(prs, hf.slide)

add_section_slide(prs, heading, blurb) ==
    LET s0 == BlankSlide("section")
        hf == add_header_footer(s0, heading, <<"num", Len(prs) + 1>>, None)
    IN  IF ~hf.ok THEN Raised(prs, s0)
        ELSE IF ~IsStr(heading) THEN Raised(prs, hf.slide)
        ELSE IF Truthy(blurb) /\ ~IsStr(blurb) THEN Raised(prs, hf.slide)
        ELSE Added(prs, [hf.slide EXCEPT !.title = heading[2],
                                         !.sub = IF Truthy(blurb) THEN blurb[2] ELSE <<>>])

add_bullets_slide(prs, title, bullets) ==
    LET s0 == BlankSlide("bullets")
        hf == add_header_footer(s0, title, <<"num", Len(prs) + 1>>, None)
        ps == Paragraphs(bullets)
    IN  IF ~hf.ok THEN Raised(prs, s0)
        ELSE IF ~IsStr(title) THEN Raised(prs, hf.slide)
        ELSE IF ~ps.ok THEN Raised(prs, hf.slide)
        ELSE Added(prs, [hf.slide EXCEPT !.title = title[2], !.body = ps.paras])

add_two_column_slide(prs, title, left_points, right_points) ==
    LET s0 == BlankSlide("two-column")
        hf == add_header_footer(s0, title, <<"num", Len(prs) + 1>>, None)
        pl == Paragraphs(left_points)
        pr == Paragraphs(right_points)
    IN  IF ~hf.ok THEN Raised(prs, s0)
        ELSE IF ~IsStr(title) THEN Raised(prs, hf.slide)
        ELSE IF ~pl.ok \/ ~pr.ok THEN Raised(prs, hf.slide)
        ELSE Added(prs, [hf.slide EXCEPT !.title = title[2], !.body = pl.paras,
                                         !.right = pr.paras])

\* no add_header_footer call: a chart slide has no header bar and no page number
add_chart_slide(prs, title) ==
    LET s0 == BlankSlide("chart") IN
    IF ~IsStr(title) THEN Raised(prs, s0)
    ELSE Added(prs, [s0 EXCEPT !.title = title[2], !.chart = TRUE])

\* ------------------------------------------------------------------------
\* The image renderers of ppt_generator.py; pic_ok: add_picture did not raise
\* ------------------------------------------------------------------------
add_image_right_slide(prs, title, bullets, image_path, pic_ok) ==
    LET s0 == BlankSlide("image-right")
        hf == add_header_footer(s0, title, <<"num", Len(prs) + 1>>, None)
        ps == Paragraphs(Or(bullets, EmptyList))
    IN  IF ~hf.ok THEN Raised(prs, s0)
        ELSE IF ~IsStr(title) THEN Raised(prs, hf.slide)
        ELSE IF ~ps.ok THEN Raised(prs, hf.slide)
        ELSE Added(prs, [hf.slide EXCEPT !.title = title[2], !.body = ps.paras,
                                         !.image = IF pic_ok THEN image_path[2] ELSE <<>>])

add_image_hero_slide(prs, image_path, caption, pic_ok) ==
    LET s0 == BlankSlide("image-hero")
        hf == add_header_footer(s0, EmptyStr, <<"num", Len(prs) + 1>>, None)
        s1 == IF pic_ok THEN [hf.slide EXCEPT !.image = image_path[2]]
              ELSE [hf.slide EXCEPT !.placeholder = TRUE]
    IN  IF Truthy(caption) /\ ~IsStr(caption) THEN Raised(prs, s1)
        ELSE Added(prs, IF Truthy(caption) THEN [s1 EXCEPT !.caption = caption[2]] ELSE s1)

\* ------------------------------------------------------------------------
\* Image resolution.  world is what the network, the decoder and the disk
\* do for one slide.
\* ------------------------------------------------------------------------
Worlds ==
    {"search_error", "search_status", "no_photos", "fetch_error",
     "empty_bytes", "undecodable", "image"}

fetch_image_bytes(query, pexels_key, world) ==
    IF ~pexels_key THEN None
    ELSE IF world \in {"search_error", "search_status", "no_photos", "fetch_error"}
    THEN None
    ELSE IF world = "empty_bytes" THEN <<"bytes", "empty">>
    ELSE IF world = "undecodable" THEN <<"bytes", "undecodable">>
    ELSE <<"bytes", "image">>

\* os.path.join(tmpdir, f"{fname_prefix}.jpg"), relative to tmpdir
ImageName(n) == <<"i", "m", "g", "_">> \o Str(n) \o <<".", "j", "p", "g">>

\* mutant: the except branch returns the path as well
save_image_tmp_PathOnError(img_bytes, n) == PyStr(ImageName(n))

\* Image.open raises on bytes that are no image: the except returns None
save_image_tmp(img_bytes, n) ==
    IF img_bytes[2] = "image" THEN PyStr(ImageName(n)) ELSE None

\* ------------------------------------------------------------------------
\* generate_outline and the outline block of generate_presentation
\* ------------------------------------------------------------------------
\* model_out: [kind |-> "error"] when generate_content raises, else the text
generate_outline(google_key, model_out) ==
    IF ~google_key THEN [ok |-> FALSE, err |-> "ValueError", v |-> None]
    ELSE IF model_out.kind = "error" THEN [ok |-> FALSE, err |-> "ModelError", v |-> None]
    ELSE LET r == safe_json_parse(Strip(model_out.text)) IN
         IF r.ok THEN [ok |-> TRUE, err |-> "none", v |-> r.v]
         ELSE [ok |-> FALSE, err |-> "JSONDecodeError", v |-> None]

Spec_(type, pairs) == PyDict(<<<<K_type, PyStr(type)>>>> \o pairs)
StrList(xs) == PyList([i \in 1..Len(xs) |-> PyStr(xs[i])])

FallbackSlides(topic, audience) ==
    PyList(<<
        Spec_(T_section, <<<<K_heading, topic>>, <<K_blurb, audience>>>>),
        Spec_(T_bullets, <<<<K_title, PyStr(F_Overview)>>,
                           <<K_bullets, StrList(<<F_What_it_is, F_Why_it_matters, F_Key_points>>)>>>>),
        Spec_(T_two_column, <<<<K_title, PyStr(F_Pros_Cons)>>,
                              <<K_left, StrList(<<F_Pro_1, F_Pro_2>>)>>,
                              <<K_right, StrList(<<F_Con_1, F_Con_2>>)>>>>),
        Spec_(T_bullets, <<<<K_title, PyStr(F_Next_Steps)>>,
                           <<K_bullets, StrList(<<F_Do_X, F_Measure_Y, F_Review_Z>>)>>>>)
    >>)

\* DeckRequest(..., title=title or topic, ...)
DeckRequest(a) == [a EXCEPT !.title = Or(a.title, a.topic)]

\* mutant: the except branch leaves the outline empty
Fallback_NoSlides(a, err) ==
    LET r == DeckRequest(a) IN
    [err |-> err,
     deck_title |-> Or(r.title, a.topic),
     deck_subtitle |-> Or(r.subtitle, EmptyStr),
     slides |-> EmptyList]

\* lines 255-264: the except branch
Fallback(a, err) ==
    LET r == DeckRequest(a) IN
    [err |-> err,
     deck_title |-> Or(r.title, a.topic),
     deck_subtitle |-> Or(r.subtitle, EmptyStr),
     slides |-> FallbackSlides(a.topic, a.audience)]

\* lines 249-264: the inner try and its except; a are the call's arguments
OutlineBlock(a, google_key, model_out) ==
    LET r == DeckRequest(a)
        o == generate_outline(google_key, model_out)
    IN  IF ~o.ok THEN Fallback(a, o.err)
        ELSE IF ~IsDict(o.v) THEN Fallback(a, "AttributeError")
        ELSE LET meta == Or(Get(o.v, K_meta, EmptyDict), EmptyDict) IN
             IF ~IsDict(meta) THEN Fallback(a, "AttributeError")
             ELSE [err |-> "none",
                   deck_title |-> Or(Or(Get(meta, K_title, None), r.title), a.topic),
                   deck_subtitle |-> Or(Or(Get(meta, K_subtitle, None), r.subtitle), EmptyStr),
                   slides |-> Get(o.v, K_slides, EmptyList)]

\* ------------------------------------------------------------------------
\* Slide builder: lines 281-315, the dispatch on stype for one dict s
\* ------------------------------------------------------------------------
\* mutant: without an image the image-hero branch adds no slide
render_image_hero_Skip(prs, s, image_path, pic_ok) ==
    IF Truthy(image_path)
    THEN add_image_hero_slide(prs, image_path, Get(s, K_caption, EmptyStr), pic_ok)
    ELSE [ok |-> TRUE, prs |-> prs]

\* mutant: without an image the image-hero branch draws the hero slide with
\* its placeholder rectangle
render_image_hero_Placeholder(prs, s, image_path, pic_ok) ==
    add_image_hero_slide(prs, image_path, Get(s, K_caption, EmptyStr),
                         Truthy(image_path) /\ pic_ok)

\* lines 302-308: the image-hero branch
render_image_hero(prs, s, image_path, pic_ok) ==
    IF Truthy(image_path)
    THEN add_image_hero_slide(prs, image_path, Get(s, K_caption, EmptyStr), pic_ok)
    ELSE add_section_slide(prs, Or(Get(s, K_caption, EmptyStr), PyStr(D_Visual)), EmptyStr)

render_spec(prs, s, image_path, pic_ok) ==
    LET stype == Get(s, K_type, PyStr(T_bullets)) IN
    IF stype = PyStr(T_section) THEN
        add_section_slide(prs, Get(s, K_heading, PyStr(D_Section)), Get(s, K_blurb, EmptyStr))
    ELSE IF stype = PyStr(T_bullets) THEN
        IF Truthy(image_path)
        THEN add_image_right_slide(prs, Get(s, K_title, PyStr(D_Slide)),
                                   Get(s, K_bullets, EmptyList), image_path, pic_ok)
        ELSE add_bullets_slide(prs, Get(s, K_title, PyStr(D_Slide)), Get(s, K_bullets, EmptyList))
    ELSE IF stype = PyStr(T_two_column) THEN
        IF Truthy(image_path)
        THEN add_image_right_slide(prs, Get(s, K_title, PyStr(D_Two_column)),
                                   Or(Get(s, K_left, EmptyList), Get(s, K_right, EmptyList)),
                                   image_path, pic_ok)
        ELSE add_two_column_slide(prs, Get(s, K_title, PyStr(D_Two_column)),
                                  Get(s, K_left, EmptyList), Get(s, K_right, EmptyList))
    ELSE IF stype = PyStr(T_image_hero) THEN render_image_hero(prs, s, image_path, pic_ok)
    ELSE IF stype = PyStr(T_chart) THEN
        add_chart_slide(prs, Get(s, K_title, PyStr(D_Chart)))
    ELSE add_bullets_slide(prs, Get(s, K_title, PyStr(D_Slide)), Get(s, K_bullets, EmptyList))

\* lines 272-279: image_path for the dict s when prs holds n slides
resolve_image(s, n, download_images, pexels_key, world) ==
    LET image_query == Get(s, K_image_query, None) IN
    IF download_images /\ Truthy(image_query) THEN
        LET img_bytes == fetch_image_bytes(image_query, pexels_key, world) IN
        IF Truthy(img_bytes) THEN save_image_tmp(img_bytes, n) ELSE None
    ELSE None

\* ------------------------------------------------------------------------
\* Inputs: what the model collaborator answers (resp.text, line 121)
\* ------------------------------------------------------------------------
MaxSlides == 2

I_topic == <<"S", "u", "n">>
I_audience == <<"A", "l", "l">>
I_key == <<"k">>
I_logo == <<"l", "o", "g", "o">>
I_gone == <<"g", "o", "n", "e">>
I_quiz == <<"q", "u", "i", "z">>

JStr(w) == <<QUOTE>> \o w \o <<QUOTE>>
JPair(k, text) == JStr(k) \o <<":">> \o text

RECURSIVE JJoin(_)
JJoin(texts) ==
    IF texts = <<>> THEN <<>>
    ELSE IF Len(texts) = 1 THEN texts[1]
    ELSE texts[1] \o <<",">> \o JJoin(Tail(texts))

JObj(pairs) == <<"{">> \o JJoin(pairs) \o <<"}">>
JArr(items) == <<"[">> \o JJoin(items) \o <<"]">>
JType(t) == JPair(K_type, JStr(t))
JTitle == JPair(K_title, JStr(<<"X">>))
JQuery == JPair(K_image_query, JStr(<<"q">>))
JAB == JArr(<<JStr(<<"a">>), JStr(<<"b">>)>>)

\* slide entries: one per slide type (with an image_query where the type uses
\* one), an unknown type, a missing type, and entries that are not slide-specs
WellFormedEntries ==
    {JObj(<<JType(T_section), JPair(K_heading, JStr(<<"H">>)), JPair(K_blurb, JStr(<<"b">>))>>),
     JObj(<<JType(T_bullets), JTitle, JPair(K_bullets, JAB), JQuery>>),
     JObj(<<JType(T_two_column), JTitle, JPair(K_left, JArr(<<JStr(<<"a">>)>>)),
            JPair(K_right, JArr(<<JStr(<<"b">>)>>)), JQuery>>),
     JObj(<<JType(T_two_column), JTitle, JPair(K_left, JArr(<<>>)),
            JPair(K_right, JArr(<<JStr(<<"b">>)>>)), JQuery>>),
     JObj(<<JType(T_image_hero), JPair(K_caption, JStr(<<"c">>)), JQuery>>),
     JObj(<<JType(T_image_hero)>>),
     JObj(<<JType(T_chart), JTitle>>),
     JObj(<<JType(I_quiz), JTitle, JPair(K_bullets, JAB), JQuery>>),
     JObj(<<JTitle, JPair(K_bullets, JAB)>>)}

MalformedEntries ==
    {JStr(<<"x">>),
     JObj(<<JType(T_bullets), JTitle, JPair(K_bullets, JArr(<<<<"7">>>>))>>)}

Entries == WellFormedEntries \cup MalformedEntries

RECURSIVE SeqsUpTo(_, _)
SeqsUpTo(S, n) ==
    IF n = 0 THEN {<<>>}
    ELSE LET shorter == SeqsUpTo(S, n - 1) IN
         shorter \cup {Append(q, x) : q \in {t \in shorter : Len(t) = n - 1}, x \in S}

Metas ==
    {<<>>,
     <<JPair(K_meta, JObj(<<JPair(K_title, JStr(<<"M">>)), JPair(K_subtitle, JStr(<<"s">>))>>))>>}

OutlineTexts ==
    {JObj(<<JPair(K_slides, JArr(es))>> \o m) : es \in SeqsUpTo(Entries, MaxSlides), m \in Metas}

\* objects whose fields have the wrong shape, and texts that are no object
OddTexts ==
    {JObj(<<>>),
     JObj(<<JPair(K_slides, <<"n", "u", "l", "l">>)>>),
     JObj(<<JPair(K_slides, <<"7">>)>>),
     JObj(<<JPair(K_slides, JStr(<<"a", "b">>))>>),
     JObj(<<JPair(K_meta, <<"n", "u", "l", "l">>)>>),
     JObj(<<JPair(K_meta, JArr(<<<<"1">>>>))>>),
     JObj(<<JPair(K_meta, JObj(<<JPair(K_title, <<"5">>)>>))>>),
     JArr(<<<<"1">>>>),
     <<"4", "2">>,
     <<"S", "o", "r", "r", "y">>,
     <<"{", "o", "o", "p", "s">>,
     <<>>}

Fenced(text) == FENCE \o JSONTAG \o <<"\n">> \o text \o <<"\n">> \o FENCE

ModelOutcomes ==
    {[kind |-> "error", text |-> <<>>]}
    \cup {[kind |-> "text", text |-> t] : t \in OutlineTexts \cup OddTexts}
    \cup {[kind |-> "text", text |-> Fenced(t)] : t \in OutlineTexts}

\* ------------------------------------------------------------------------
\* State
\* ------------------------------------------------------------------------
VARIABLES
    pc,        \* where the caller and generate_presentation stand
    env,       \* the module globals GOOGLE_API_KEY and PEXELS_API_KEY (is it set)
    self,      \* the PPTGenerator: self.api_key, or None before construction
    args,      \* the arguments of the generate_presentation call
    tmpdir,    \* "none", "exists", "removed"
    files,     \* names of the image files in tmpdir
    prs,       \* the Presentation: its slides
    outline,   \* deck_title, deck_subtitle, slides, and the error the except caught
    items,     \* what the for loop has still to draw from slides
    last,      \* the slide-spec of the latest loop iteration and its image resolution
    exc,       \* the exception in flight, or "none"
    out,       \* the output file: "absent", "written"
    saves,     \* calls of prs.save
    pin,       \* safe_json_parse check: the text's parts
    pres       \* safe_json_parse check: the results

vars == <<pc, env, self, args, tmpdir, files, prs, outline, items, last, exc, out, saves, pin, pres>>

NoArgs == [topic |-> None, audience |-> None, title |-> None, subtitle |-> None,
           author |-> None, logo_path |-> None, download_images |-> FALSE]
NoOutline == [err |-> "none", deck_title |-> None, deck_subtitle |-> None, slides |-> None]
NoLast == [spec |-> None, res |-> "none", image_path |-> None]
NoParse == [lead |-> <<>>, fenced |-> FALSE, tag |-> <<>>, payload |-> <<>>, trail |-> <<>>]
NoRes == [wrapped |-> <<>>, bare |-> <<>>]

Envs == [google : {EmptyStr, PyStr(I_key)}, pexels : BOOLEAN]

Init ==
    /\ pc = "new"
    /\ env \in Envs
    /\ self = None
    /\ args = NoArgs
    /\ tmpdir = "none"
    /\ files = {}
    /\ prs = <<>>
    /\ outline = NoOutline
    /\ items = <<>>
    /\ last = NoLast
    /\ exc = "none"
    /\ out = "absent"
    /\ saves = 0
    /\ pin = NoParse
    /\ pres = NoRes

\* PPTGenerator.__init__
Construct ==
    /\ pc = "new"
    /\ \E api_key \in {None, PyStr(I_key)} :
        LET k == Strip(Or(api_key, env.google)[2]) IN
        IF k = <<>>
        THEN /\ pc' = "ctor_raised"
             /\ exc' = "ValueError"
             /\ self' = self
        ELSE /\ pc' = "ready"
             /\ exc' = exc
             /\ self' = PyStr(k)
    /\ UNCHANGED <<env, args, tmpdir, files, prs, outline, items, last, out, saves, pin, pres>>

\* lines 240-247: the call, tempfile.mkdtemp and Presentation()
Call ==
    /\ pc = "ready"
    /\ \E logo \in {None, PyStr(I_logo), PyStr(I_gone)}, dl \in BOOLEAN :
        args' = [topic |-> PyStr(I_topic), audience |-> PyStr(I_audience), title |-> None,
                 subtitle |-> None, author |-> None, logo_path |-> logo,
                 download_images |-> dl]
    /\ tmpdir' = "exists"
    /\ \E built \in BOOLEAN :
        IF built THEN pc' = "outline" /\ exc' = exc
        ELSE pc' = "raised" /\ exc' = "PresentationError"
    /\ UNCHANGED <<env, self, files, prs, outline, items, last, out, saves, pin, pres>>

\* lines 249-264
Outline ==
    /\ pc = "outline"
    /\ \E m \in ModelOutcomes : outline' = OutlineBlock(args, Truthy(env.google), m)
    /\ pc' = "title"
    /\ UNCHANGED <<env, self, args, tmpdir, files, prs, items, last, exc, out, saves, pin, pres>>

\* line 267
TitleSlide ==
    /\ pc = "title"
    /\ LET r == add_title_slide(prs, outline.deck_title, outline.deck_subtitle,
                                Or(args.author, EmptyStr), args.logo_path) IN
        /\ prs' = r.prs
        /\ IF r.ok THEN pc' = "for" /\ exc' = exc
           ELSE pc' = "finally" /\ exc' = "TypeError"
    /\ UNCHANGED <<env, self, args, tmpdir, files, outline, items, last, out, saves, pin, pres>>

\* line 270: for s in slides
ForSlides ==
    /\ pc = "for"
    /\ LET it == Iter(outline.slides) IN
        IF it.ok THEN pc' = "body" /\ items' = it.items /\ exc' = exc
        ELSE pc' = "finally" /\ items' = items /\ exc' = "TypeError"
    /\ UNCHANGED <<env, self, args, tmpdir, files, prs, outline, last, out, saves, pin, pres>>

\* lines 271-315: one iteration of the loop
RenderSlide ==
    /\ pc = "body"
    /\ items # <<>>
    /\ LET s == Head(items) IN
        IF ~IsDict(s)
        THEN /\ pc' = "finally"
             /\ exc' = "AttributeError"
             /\ last' = [spec |-> s, res |-> "none", image_path |-> None]
             /\ UNCHANGED <<files, prs, items>>
        ELSE LET wanted == args.download_images /\ Truthy(Get(s, K_image_query, None))
                 asked == wanted /\ env.pexels
             IN
             \* the network acts only when asked
             \E world \in IF asked THEN Worlds ELSE {"idle"} :
             LET image_path == resolve_image(s, Len(prs), args.download_images, env.pexels, world)
             IN
             \* add_picture runs only with an image_path
             \E pic_ok \in IF Truthy(image_path) THEN BOOLEAN ELSE {TRUE} :
             LET r == render_spec(prs, s, image_path, pic_ok) IN
                /\ last' = [spec |-> s,
                            res |-> IF ~wanted THEN "not_requested"
                                    ELSE IF ~env.pexels THEN "no_key" ELSE world,
                            image_path |-> image_path]
                /\ files' = IF Truthy(image_path) THEN files \cup {image_path[2]} ELSE files
                /\ prs' = r.prs
                /\ IF r.ok THEN pc' = pc /\ exc' = exc /\ items' = Tail(items)
                   ELSE pc' = "finally" /\ exc' = "TypeError" /\ items' = items
    /\ UNCHANGED <<env, self, args, tmpdir, outline, out, saves, pin, pres>>

\* mutant: prs.save and the return sit inside the loop body
Save_InLoop ==
    /\ pc = "body"
    /\ prs # <<>>
    /\ saves' = saves + 1
    /\ \E saved \in BOOLEAN :
        IF saved THEN out' = "written" /\ exc' = exc
        ELSE out' = out /\ exc' = "SaveError"
    /\ pc' = "finally"
    /\ UNCHANGED <<env, self, args, tmpdir, files, prs, outline, items, last, pin, pres>>

\* lines 317-318: prs.save(output_path); return output_path
Save ==
    /\ pc = "body"
    /\ items = <<>>
    /\ saves' = saves + 1
    /\ \E saved \in BOOLEAN :
        IF saved THEN out' = "written" /\ exc' = exc
        ELSE out' = out /\ exc' = "SaveError"
    /\ pc' = "finally"
    /\ UNCHANGED <<env, self, args, tmpdir, files, prs, outline, items, last, pin, pres>>

\* lines 320-325: shutil.rmtree(tmpdir, ignore_errors=True), then return or re-raise
Cleanup ==
    /\ pc = "finally"
    /\ tmpdir' = "removed"
    /\ files' = {}
    /\ pc' = IF exc = "none" THEN "returned" ELSE "raised"
    /\ UNCHANGED <<env, self, args, prs, outline, items, last, exc, out, saves, pin, pres>>

Next ==
    \/ Construct
    \/ Call
    \/ Outline
    \/ TitleSlide
    \/ ForSlides
    \/ RenderSlide
    \/ Save
    \/ Cleanup

Spec == Init /\ [][Next]_vars

\* ------------------------------------------------------------------------
\* safe_json_parse on its own: a payload, bare and inside fences and prose
\* ------------------------------------------------------------------------
MaxProse == 1

ProseAtoms == {<<"o", "k">>, <<" ">>, <<"{">>, <<"}">>, FENCE}

RECURSIVE Flatten(_)
Flatten(ws) == IF ws = <<>> THEN <<>> ELSE Head(ws) \o Flatten(Tail(ws))

Prose == {Flatten(ws) : ws \in SeqsUpTo(ProseAtoms, MaxProse)}

Tags == {<<>>, JSONTAG, <<"J", "s", "o", "n">>}

Payloads ==
    {JObj(<<>>),
     JObj(<<JPair(<<"a">>, <<"1">>)>>),
     JObj(<<JPair(<<"a">>, JObj(<<JPair(<<"b">>, JStr(<<"c">>))>>)), JPair(<<"d">>, JObj(<<>>))>>),
     JObj(<<JPair(<<"a">>, JStr(FENCE))>>),
     JObj(<<JPair(<<"a">>, JStr(<<"}", "{">>))>>),
     JArr(<<<<"1">>, <<"2">>>>),
     JArr(<<JObj(<<JPair(<<"a">>, <<"1">>)>>)>>),
     <<"4", "2">>,
     JStr(<<"h", "i">>),
     <<"n", "u", "l", "l">>,
     <<"o", "k">>,
     <<"{", "o", "k">>,
     <<>>}

ParseInputs ==
    {[lead |-> l, fenced |-> f, tag |-> t, payload |-> p, trail |-> r] :
        l \in Prose, r \in Prose, p \in Payloads,
        <<f, t>> \in ({TRUE} \X Tags) \cup {<<FALSE, <<>>>>}}

\* the text handed to safe_json_parse
WrappedText(i) ==
    i.lead
    \o (IF i.fenced THEN FENCE \o i.tag \o <<"\n">> ELSE <<>>)
    \o i.payload
    \o (IF i.fenced THEN <<"\n">> \o FENCE ELSE <<>>)
    \o i.trail

ParseInit ==
    /\ pc = "parse"
    /\ env = [google |-> EmptyStr, pexels |-> FALSE]
    /\ self = None
    /\ args = NoArgs
    /\ tmpdir = "none"
    /\ files = {}
    /\ prs = <<>>
    /\ outline = NoOutline
    /\ items = <<>>
    /\ last = NoLast
    /\ exc = "none"
    /\ out = "absent"
    /\ saves = 0
    /\ pin \in ParseInputs
    /\ pres = NoRes

ParseWrapped ==
    /\ pc = "parse"
    /\ pres.wrapped = <<>>
    /\ pres' = [pres EXCEPT !.wrapped = <<safe_json_parse(WrappedText(pin))>>]
    /\ UNCHANGED <<pc, env, self, args, tmpdir, files, prs, outline, items, last, exc, out,
                   saves, pin>>

ParseBare ==
    /\ pc = "parse"
    /\ pres.bare = <<>>
    /\ pres' = [pres EXCEPT !.bare = <<safe_json_parse(pin.payload)>>]
    /\ UNCHANGED <<pc, env, self, args, tmpdir, files, prs, outline, items, last, exc, out,
                   saves, pin>>

ParseNext == ParseWrapped \/ ParseBare

SpecParse == ParseInit /\ [][ParseNext]_vars

\* ------------------------------------------------------------------------
\* Properties
\* ------------------------------------------------------------------------
\* a slide-spec of the data model: a dict whose text fields are strings and
\* whose bullet fields are lists of strings
WellFormedSpec(s) ==
    /\ IsDict(s)
    /\ \A i \in 1..Len(s[2]) :
        LET k == s[2][i][1]
            v == s[2][i][2]
        IN  /\ k \in {K_type, K_heading, K_blurb, K_title, K_caption, K_image_query} => IsStr(v)
            /\ k \in {K_bullets, K_left, K_right} =>
                   IsList(v) /\ \A j \in 1..Len(v[2]) : IsStr(v[2][j])

WellFormedOutline ==
    /\ IsStr(outline.deck_title)
    /\ IsStr(outline.deck_subtitle)
    /\ IsList(outline.slides)
    /\ \A i \in 1..Len(outline.slides[2]) : WellFormedSpec(outline.slides[2][i])

KnownTypes == {PyStr(T_section), PyStr(T_bullets), PyStr(T_two_column),
               PyStr(T_image_hero), PyStr(T_chart)}

\* the slide variants the spec's type may be rendered as
VariantsOf(s) ==
    LET t == Get(s, K_type, PyStr(T_bullets)) IN
    IF t = PyStr(T_section) THEN {"section"}
    ELSE IF t = PyStr(T_two_column) THEN {"two-column", "image-right"}
    ELSE IF t = PyStr(T_image_hero) THEN {"image-hero", "section"}
    ELSE IF t = PyStr(T_chart) THEN {"chart"}
    ELSE {"bullets", "image-right"}

\* the outline block has run
Outlined == outline # NoOutline
\* the loop has ended and prs.save was called
Rendered == saves >= 1
\* an exception left the slide-building code
RenderRaised == exc \in {"TypeError", "AttributeError"}

\* C1: for an outline of N slide-specs the deck holds the title slide and then
\* one complete slide per spec, in the order of the specs, and rendering such an
\* outline does not raise
C1_OneSlidePerSpec ==
    /\ Rendered =>
        LET specs == Iter(outline.slides).items IN
        /\ Len(prs) = Len(specs) + 1
        /\ prs[1].variant = "title"
        /\ \A k \in 1..Len(specs) :
            prs[k + 1].complete /\ prs[k + 1].variant \in VariantsOf(specs[k])
    /\ (Outlined /\ WellFormedOutline) => ~RenderRaised

C1_Witness ==
    /\ pc = "returned"
    /\ WellFormedOutline
    /\ Len(outline.slides[2]) = 2
    /\ Len(prs) = 3
    /\ prs[2].variant = "image-hero"
    /\ prs[3].variant = "chart"

\* C2: when the outline block falls back, no exception leaves the slide
\* building, and the deck that is saved is: title, section (heading = topic),
\* bullets "Overview", two-column "Pros & Cons", bullets "Next Steps"
C2_FallbackDeck ==
    outline.err # "none" =>
        /\ ~RenderRaised
        /\ Rendered =>
            /\ Len(prs) = 5
            /\ \A k \in 1..5 : prs[k].complete
            /\ [k \in 1..5 |-> prs[k].variant]
                 = <<"title", "section", "bullets", "two-column", "bullets">>
            /\ prs[2].title = args.topic[2]
            /\ prs[3].title = F_Overview
            /\ prs[4].title = F_Pros_Cons
            /\ prs[5].title = F_Next_Steps

C2_Witness ==
    /\ pc = "returned"
    /\ outline.err = "JSONDecodeError"
    /\ Len(prs) = 5
    /\ out = "written"

\* C3 (as claimed): once the outline text has parsed as a JSON object, the call
\* raises only from prs.save
C3_OnlySaveRaises ==
    (Outlined /\ outline.err = "none") => exc \in {"none", "SaveError"}

\* C4 (as claimed): the title slide shows no page number and the K-th content
\* slide shows page number K
C4_PageNumbers ==
    \A k \in 1..Len(prs) :
        prs[k].complete =>
            prs[k].page = (IF k = 1 THEN <<>> ELSE Str(k - 1))

\* C5 (as claimed): when the call has ended, by return or by exception, the
\* transient directory is removed
C5_TmpdirRemoved ==
    (pc \in {"returned", "raised"}) => tmpdir = "removed"

\* C6: prs.save is called at most once, only after the title slide and every
\* slide-spec are rendered, and not at all when an earlier step raised
C6_WriteOnceAfterRender ==
    /\ saves <= 1
    /\ out = "written" => saves = 1
    /\ saves = 1 =>
        /\ Iter(outline.slides).ok
        /\ Len(prs) = Len(Iter(outline.slides).items) + 1
        /\ \A k \in 1..Len(prs) : prs[k].complete
    /\ exc \in {"TypeError", "AttributeError", "PresentationError"} =>
        saves = 0 /\ out = "absent"

C6_Witness ==
    /\ pc = "returned"
    /\ out = "written"
    /\ saves = 1
    /\ Len(prs) = 3

\* C9: when image resolution fails (no credential, search error or bad status,
\* no result, fetch error, bytes that do not decode) the image is absent, the
\* slide is rendered without a picture, and a well-formed spec does not raise
ResolutionFailures ==
    {"no_key", "search_error", "search_status", "no_photos", "fetch_error",
     "empty_bytes", "undecodable"}

C9_AbsentOnFailure ==
    last.res \in ResolutionFailures =>
        /\ last.image_path = None
        /\ ImageName(Len(prs) - 1) \notin files
        /\ prs[Len(prs)].image = <<>>
        /\ prs[Len(prs)].variant \notin {"image-right", "image-hero"}
        /\ WellFormedSpec(last.spec) => ~RenderRaised

C9_Witness ==
    /\ pc = "returned"
    /\ last.res = "no_photos"
    /\ Get(last.spec, K_type, None) = PyStr(T_two_column)
    /\ prs[Len(prs)].variant = "two-column"

\* C10 (as claimed): a spec with an unknown type is rendered as the same spec
\* with type "bullets" is, whatever the image resolution gave
AsBullets(s) == PyDict(Put(s[2], K_type, PyStr(T_bullets)))

C10_UnknownAsBullets ==
    (IsDict(last.spec) /\ Get(last.spec, K_type, PyStr(T_bullets)) \notin KnownTypes) =>
        \E pic_ok \in BOOLEAN :
            LET before == SubSeq(prs, 1, Len(prs) - 1)
                r == render_spec(before, AsBullets(last.spec), last.image_path, pic_ok)
            IN  prs[Len(prs)] = r.prs[Len(r.prs)]

\* has the text a "{" with a "}" after it
HasSpan(text) ==
    \E i \in 1..Len(text) : \E j \in (i + 1)..Len(text) : text[i] = "{" /\ text[j] = "}"

NoBrace(text) == \A i \in 1..Len(text) : text[i] \notin {"{", "}"}

IsObjectText(text) == JsonLoads(text).ok /\ IsDict(JsonLoads(text).v)

BothParsed == pres.wrapped # <<>> /\ pres.bare # <<>>

\* C7 (as claimed): a JSON object inside fences and any prose parses to what
\* the bare object parses to
C7_RoundTrip ==
    (BothParsed /\ pin.fenced /\ IsObjectText(pin.payload)) =>
        pres.wrapped = pres.bare

\* C7 (amended): the same, for prose without "{" and "}" and an object whose
\* text holds no fence marker
C7_RoundTripCleanProse ==
    (/\ BothParsed
     /\ pin.fenced
     /\ IsObjectText(pin.payload)
     /\ NoBrace(pin.lead) /\ NoBrace(pin.trail)
     /\ FirstFence(pin.payload) = 0) =>
        pres.wrapped = pres.bare

C7_Witness ==
    /\ BothParsed
    /\ pin.fenced
    /\ pin.tag = JSONTAG
    /\ pin.lead = <<"o", "k">>
    /\ pin.trail = <<"o", "k">>
    /\ IsObjectText(pin.payload)
    /\ Len(pres.bare[1].v[2]) = 2
    /\ pres.wrapped = pres.bare

\* C8 (as claimed): a text without a {...} span makes safe_json_parse fail
C8_NoSpanFails ==
    (pres.wrapped # <<>> /\ ~HasSpan(WrappedText(pin))) => ~pres.wrapped[1].ok

\* C11 (as claimed): a missing model credential raises at construction, and no
\* call on a constructed PPTGenerator turns a missing-credential error into the
\* fallback outline
C11_CredentialErrorNotSwallowed ==
    /\ pc = "ctor_raised" => exc = "ValueError"
    /\ (self # None /\ Outlined) => outline.err # "ValueError"

\* the latest loop iteration rendered a well-formed slide-spec of type t
LastIs(t) ==
    /\ last.res # "none"
    /\ WellFormedSpec(last.spec)
    /\ Get(last.spec, K_type, PyStr(T_bullets)) = PyStr(t)

\* C12 (as claimed): a bullets or two-column spec is rendered as image-right
\* exactly when an image was resolved for it, and the bullet column of the
\* image-right slide is the spec's bullets, for a two-column spec its left
C12_ImageRightShowsLeft ==
    (LastIs(T_bullets) \/ LastIs(T_two_column)) =>
        LET s == last.spec
            slide == prs[Len(prs)]
            column == IF LastIs(T_bullets) THEN Get(s, K_bullets, EmptyList)
                      ELSE Get(s, K_left, EmptyList)
        IN  /\ slide.complete
            /\ slide.variant = "image-right" <=> Truthy(last.image_path)
            /\ Truthy(last.image_path) => slide.body = Paragraphs(column).paras

\* C13 (as claimed): the title slide carries the logo exactly when a logo path
\* was given and that file exists, and whatever the logo path the title slide
\* of a deck with a string title and subtitle is built without raising
C13_TitleLogo ==
    (Len(prs) >= 1 /\ IsStr(outline.deck_title) /\ IsStr(outline.deck_subtitle)) =>
        /\ prs[1].complete
        /\ prs[1].logo <=> (Truthy(args.logo_path) /\ args.logo_path[2] \in Disk)

\* an image-hero spec was rendered and no image was resolved for it
HeroWithoutImage == LastIs(T_image_hero) /\ ~Truthy(last.image_path)

\* C14 (as claimed): an image-hero spec without an image is rendered as an
\* image-hero slide with the placeholder rectangle
C14_HeroPlaceholder ==
    HeroWithoutImage =>
        /\ prs[Len(prs)].complete
        /\ prs[Len(prs)].variant = "image-hero"
        /\ prs[Len(prs)].placeholder

\* C14 (amended): an image-hero spec without an image is rendered, without
\* raising, as a section slide headed by the caption, or by "Visual" when the
\* caption is empty or missing, with no blurb; the placeholder rectangle is
\* drawn only on an image-hero slide whose image file could not be placed
C14_HeroWithoutImageIsSection ==
    /\ HeroWithoutImage =>
        LET slide == prs[Len(prs)]
            heading == Or(Get(last.spec, K_caption, EmptyStr), PyStr(D_Visual))[2]
        IN  /\ ~RenderRaised
            /\ slide.complete
            /\ slide.variant = "section"
            /\ slide.title = heading
            /\ slide.header = heading
            /\ slide.sub = <<>>
            /\ slide.image = <<>>
            /\ ~slide.placeholder
    /\ \A k \in 1..Len(prs) :
        prs[k].placeholder => prs[k].variant = "image-hero" /\ prs[k].image = <<>>
    /\ (LastIs(T_image_hero) /\ prs[Len(prs)].placeholder) => Truthy(last.image_path)

C14_Witness ==
    /\ pc = "returned"
    /\ Len(prs) = 3
    /\ Get(outline.slides[2][1], K_type, None) = PyStr(T_image_hero)
    /\ prs[2].variant = "section"
    /\ prs[2].title = D_Visual
    /\ HeroWithoutImage
    /\ last.res = "fetch_error"
    /\ prs[3].variant = "section"
    /\ prs[3].title = <<"c">>

====
